---------------------------- MODULE Spec2Model ----------------------------
(***************************************************************************)
(* Model of sensor_sim_20.py: a fleet of simulated parking-spot sensors.   *)
(* Each Spot keeps a slowly changing ground truth (has_car), produces a    *)
(* noisy distance reading, thresholds it into a detection and debounces    *)
(* the detections into stable_status.  main() sweeps all spots, publishes  *)
(* a status to the MQTT client only when it differs from last_published,   *)
(* sleeps READ_INTERVAL_S and repeats until KeyboardInterrupt.             *)
(*                                                                         *)
(* Time is counted in milliseconds so that every dwell duration            *)
(* base / activity of the sampled draws is an integer.                     *)
(***************************************************************************)
EXTENDS Integers, Sequences, FiniteSets

(***************************************************************************)
(* Bounds of the model.                                                    *)
(***************************************************************************)
\* number of spots swept (the source sweeps 20: SPOTS, line 9)
NumSpots == 2
\* sweeps of the publisher loop explored
MaxTicks == 5
\* sweeps explored when the loop is left to run without an interrupt
MaxRunTicks == 8
\* calls of update_debounced_status explored by the filter harness
MaxFeed == 9
\* the latest time (ms after construction) a read of time.time() returns
MaxTime == 80000
\* how late (ms) a read of time.time() may come after a spot's next_switch
LateMs == 500

(***************************************************************************)
(* Module constants of the source.                                         *)
(***************************************************************************)
SPOTS == 1 .. NumSpots
THRESHOLD_CM == 50
READ_INTERVAL_MS == 1000
DEBOUNCE_N == 4
DIST_FREE == <<150, 280>>
DIST_PARK == <<10, 35>>
NOISE_CM == 2

\* random.uniform(lo, hi), sampled at the two ends of its range
Uniform(lo, hi) == {lo, hi}

\* the draws of random.uniform(0.6, 1.6) at line 37, in tenths: both ends
\* of the range and the 1.0 that leaves the dwell durations as drawn
Activities == Uniform(6, 16) \cup {10}

\* the activity of the spots the publisher loop is explored with (the loop
\* never reads it; the world harness draws from all of Activities)
LoopActivities == {a \in Activities : a = 10}

\* the distances the filter harness feeds: both sides of the threshold, the
\* threshold itself, and the least reading
TestDistances == {0, THRESHOLD_CM - 1, THRESHOLD_CM, THRESHOLD_CM + 1}

\* lines 11 and 15 as the source has them
DefaultConfig == [THRESHOLD_CM |-> THRESHOLD_CM, DEBOUNCE_N |-> DEBOUNCE_N]

\* lines 11 and 15 as an edited source may have them: a threshold no
\* distance is below, a debounce count of zero, a negative one
Configs ==
    {[THRESHOLD_CM |-> t, DEBOUNCE_N |-> n] :
        t \in {-1, THRESHOLD_CM}, n \in {-1, 0, DEBOUNCE_N}}

VARIABLES
    spots,           \* spot id -> the Spot object's fields
    last_published,  \* main: last_published[spot_id], "None" until first publish
    sp,              \* main: the loop variable of `for sp in spots`
    d,               \* main: the local d (-1 while unbound)
    status,          \* main: the local status ("None" while unbound)
    pc,              \* main: where control is
    clock,           \* the last value time.time() returned (ms)
    client,          \* the MQTT client: "connected" | "disconnected"
    published,       \* what client.publish was called with, in order
    tick,            \* number of the sweep in progress (1 = first)
    hist,            \* spot id -> detections fed to update_debounced_status
    outs,            \* spot id -> statuses update_debounced_status returned
    config           \* the module globals the methods read when called

vars == <<spots, last_published, sp, d, status, pc, clock, client, published,
          tick, hist, outs, config>>

(***************************************************************************)
(* class Spot                                                              *)
(***************************************************************************)
\* mutant: the base is multiplied by the activity
park_duration_times(self, base) == (base * 1000 * self.activity) \div 10

\* _park_duration: base seconds / activity (tenths), here in ms
park_duration(self, base) == (base * 1000 * 10) \div self.activity

\* _free_duration
free_duration(self, base) == (base * 1000 * 10) \div self.activity

\* the draws of random.uniform(45, 180) and random.uniform(30, 150)
ParkBase == Uniform(45, 180)

FreeBase == Uniform(30, 150)

\* the dwell durations a spot can draw once its ground truth is occ
Dwell(self, occ) ==
    IF occ THEN {park_duration(self, b) : b \in ParkBase}
           ELSE {free_duration(self, b) : b \in FreeBase}

\* Spot.__init__ at time t with the drawn activity and free-dwell base
NewSpot(t, a, base) ==
    [has_car |-> FALSE, activity |-> a,
     next_switch |-> t + free_duration([activity |-> a], base),
     stable_status |-> "FREE", occ_count |-> 0, free_count |-> 0]

\* mutant: the flip does not re-arm next_switch
update_world_norearm(self, t, dur) ==
    IF t >= self.next_switch
    THEN [self EXCEPT !.has_car = ~self.has_car]
    ELSE self

\* mutant: next_switch is re-armed from the missed next_switch, not from t
update_world_schedule(self, t, dur) ==
    IF t >= self.next_switch
    THEN [self EXCEPT !.has_car = ~self.has_car,
                      !.next_switch = self.next_switch + dur]
    ELSE self

\* _update_world with time.time() = t and the dwell duration dur drawn
update_world(self, t, dur) ==
    IF t >= self.next_switch
    THEN [self EXCEPT !.has_car = ~self.has_car, !.next_switch = t + dur]
    ELSE self

Max(a, b) == IF a >= b THEN a ELSE b

\* lines 64-66: the distance for ground truth occ and the two draws
distance(occ, base, noise) == Max(0, base + noise)

\* mutant: the two ranges are swapped
DistBase_swapped(occ) ==
    IF occ THEN Uniform(DIST_FREE[1], DIST_FREE[2])
           ELSE Uniform(DIST_PARK[1], DIST_PARK[2])

\* line 64: the range the base distance is drawn from
DistBase(occ) ==
    IF occ THEN Uniform(DIST_PARK[1], DIST_PARK[2])
           ELSE Uniform(DIST_FREE[1], DIST_FREE[2])

Noise == Uniform(-NOISE_CM, NOISE_CM)

\* mutant: the threshold itself counts as occupied
detected_occ_le(distance_cm) == distance_cm <= THRESHOLD_CM

\* line 74: the instantaneous detection
detected_occ(distance_cm) == distance_cm < config.THRESHOLD_CM

\* mutant: the opposite counter is left as it was
count_detection_keep(self, det) ==
    IF det
    THEN [self EXCEPT !.occ_count = self.occ_count + 1]
    ELSE [self EXCEPT !.free_count = self.free_count + 1]

\* mutant: an opposite detection takes one off the counter instead of zeroing
count_detection_decay(self, det) ==
    IF det
    THEN [self EXCEPT !.occ_count = self.occ_count + 1,
                      !.free_count = Max(0, self.free_count - 1)]
    ELSE [self EXCEPT !.free_count = self.free_count + 1,
                      !.occ_count = Max(0, self.occ_count - 1)]

\* lines 76-81: count the detection, zero the opposite counter
count_detection(self, det) ==
    IF det
    THEN [self EXCEPT !.occ_count = self.occ_count + 1, !.free_count = 0]
    ELSE [self EXCEPT !.free_count = self.free_count + 1, !.occ_count = 0]

\* mutant: the counters are not reset when the status switches
switch_status_noreset(self) ==
    IF self.stable_status # "OCCUPIED" /\ self.occ_count >= DEBOUNCE_N
    THEN [self EXCEPT !.stable_status = "OCCUPIED"]
    ELSE IF self.stable_status # "FREE" /\ self.free_count >= DEBOUNCE_N
    THEN [self EXCEPT !.stable_status = "FREE"]
    ELSE self

\* mutant: one confirmation too many is asked for
switch_status_strict(self) ==
    IF self.stable_status # "OCCUPIED" /\ self.occ_count > DEBOUNCE_N
    THEN [self EXCEPT !.stable_status = "OCCUPIED",
                      !.occ_count = 0, !.free_count = 0]
    ELSE IF self.stable_status # "FREE" /\ self.free_count > DEBOUNCE_N
    THEN [self EXCEPT !.stable_status = "FREE",
                      !.occ_count = 0, !.free_count = 0]
    ELSE self

\* lines 84-93: switch after enough confirmations
switch_status(self) ==
    IF self.stable_status # "OCCUPIED" /\ self.occ_count >= config.DEBOUNCE_N
    THEN [self EXCEPT !.stable_status = "OCCUPIED",
                      !.occ_count = 0, !.free_count = 0]
    ELSE IF self.stable_status # "FREE" /\ self.free_count >= config.DEBOUNCE_N
    THEN [self EXCEPT !.stable_status = "FREE",
                      !.occ_count = 0, !.free_count = 0]
    ELSE self

\* mutant: the counters are neither zeroed nor reset
update_debounced_status_noclear(self, distance_cm) ==
    switch_status_noreset(
        count_detection_keep(self, detected_occ(distance_cm)))

\* update_debounced_status: the Spot after the call (it returns stable_status)
update_debounced_status(self, distance_cm) ==
    switch_status(count_detection(self, detected_occ(distance_cm)))

(***************************************************************************)
(* main()                                                                  *)
(***************************************************************************)
\* lines 98-108: the state once the client is connected, the spots are
\* created with the drawn activities and dwell bases, and nothing is published
StartedWith(acts, bases, cfg) ==
    /\ config = cfg
    /\ clock = 0
    /\ spots = [s \in SPOTS |-> NewSpot(0, acts[s], bases[s])]
    /\ last_published = [s \in SPOTS |-> "None"]
    /\ sp = 1
    /\ d = -1
    /\ status = "None"
    /\ pc = "read"
    /\ client = "connected"
    /\ published = <<>>
    /\ tick = 1
    /\ hist = [s \in SPOTS |-> <<>>]
    /\ outs = [s \in SPOTS |-> <<>>]

\* the source as it is: THRESHOLD_CM = 50.0, DEBOUNCE_N = 4
Started(acts, bases) == StartedWith(acts, bases, DefaultConfig)

Init ==
    \E acts \in [SPOTS -> LoopActivities], bases \in [SPOTS -> FreeBase] :
        Started(acts, bases)

\* the values a read of time.time() for spot s may return: no earlier than
\* the last read; the instant of the spot's next_switch; some time past it
ReadTimes(s) ==
    {clock} \cup {t \in {spots[s].next_switch, spots[s].next_switch + LateMs} :
                    t > clock /\ t <= MaxTime}

\* bookkeeping of one update_debounced_status call on spot s
Record(s, dist, new) ==
    /\ hist' = [hist EXCEPT ![s] = Append(@, detected_occ(dist))]
    /\ outs' = [outs EXCEPT ![s] = Append(@, new.stable_status)]

\* lines 113-114: d = sp.read_distance(); status = sp.update_debounced_status(d)
ReadAndUpdateWith(times, noises) ==
    /\ pc = "read"
    /\ \E t \in times :
       \E dur \in Dwell(spots[sp], ~spots[sp].has_car) :
          LET world == update_world(spots[sp], t, dur) IN
          \E base \in DistBase(world.has_car), noise \in noises :
             LET dist == distance(world.has_car, base, noise)
                 new  == update_debounced_status(world, dist)
             IN /\ clock' = t
                /\ d' = dist
                /\ spots' = [spots EXCEPT ![sp] = new]
                /\ status' = new.stable_status
                /\ Record(sp, dist, new)
    /\ pc' = "gate"
    /\ UNCHANGED config
    /\ UNCHANGED <<last_published, sp, client, published, tick>>

ReadAndUpdate == ReadAndUpdateWith(ReadTimes(sp), Noise)

\* after the body of the for loop: the next spot, or the sleep
NextSpot ==
    IF sp < NumSpots THEN pc' = "read" /\ sp' = sp + 1
                     ELSE pc' = "sleep" /\ sp' = sp

\* mutant: every reading is published
should_publish_always(new_status, last) == TRUE

\* line 116: the change gate
should_publish(new_status, last) == new_status # last

\* mutant: line 117 is missing, last_published is never set
Gate_forgets ==
    /\ pc = "gate"
    /\ IF should_publish(status, last_published[sp])
       THEN pc' = "publish" /\ sp' = sp
       ELSE NextSpot
    /\ UNCHANGED config
    /\ UNCHANGED <<spots, last_published, d, status, clock, client,
                   published, tick, hist, outs>>

\* mutant: line 117 writes the status into every spot's entry
Gate_allspots ==
    /\ pc = "gate"
    /\ IF should_publish(status, last_published[sp])
       THEN /\ last_published' = [s \in SPOTS |-> status]
            /\ pc' = "publish"
            /\ sp' = sp
       ELSE /\ NextSpot
            /\ UNCHANGED last_published
    /\ UNCHANGED config
    /\ UNCHANGED <<spots, d, status, clock, client, published, tick,
                   hist, outs>>

\* lines 116-117
Gate ==
    /\ pc = "gate"
    /\ IF should_publish(status, last_published[sp])
       THEN /\ last_published' = [last_published EXCEPT ![sp] = status]
            /\ pc' = "publish"
            /\ sp' = sp
       ELSE /\ NextSpot
            /\ UNCHANGED last_published
    /\ UNCHANGED config
    /\ UNCHANGED <<spots, d, status, clock, client, published, tick,
                   hist, outs>>

\* lines 119-129: client.publish of the payload (its spot_id and status; tick
\* notes the sweep that published it)
Publish ==
    /\ pc = "publish"
    /\ published' = Append(published,
                           [spot_id |-> sp, status |-> status, tick |-> tick])
    /\ NextSpot
    /\ UNCHANGED config
    /\ UNCHANGED <<spots, last_published, d, status, clock, client, tick,
                   hist, outs>>

\* line 130: time.sleep(READ_INTERVAL_S), then the next sweep
Sleep ==
    /\ pc = "sleep"
    /\ tick < MaxTicks
    /\ clock' = clock + READ_INTERVAL_MS
    /\ tick' = tick + 1
    /\ sp' = 1
    /\ pc' = "read"
    /\ UNCHANGED config
    /\ UNCHANGED <<spots, last_published, d, status, client, published,
                   hist, outs>>

\* line 132: KeyboardInterrupt, raised wherever the loop is
Interrupt ==
    /\ pc \in {"read", "gate", "publish", "sleep"}
    /\ pc' = "finally"
    /\ UNCHANGED config
    /\ UNCHANGED <<spots, last_published, sp, d, status, clock, client,
                   published, tick, hist, outs>>

\* mutant: the finally block does not disconnect
Shutdown_skip ==
    /\ pc = "finally"
    /\ pc' = "done"
    /\ UNCHANGED config
    /\ UNCHANGED <<spots, last_published, sp, d, status, clock, client,
                   published, tick, hist, outs>>

\* lines 134-136: client.loop_stop(); client.disconnect()
Shutdown ==
    /\ pc = "finally"
    /\ client' = "disconnected"
    /\ pc' = "done"
    /\ UNCHANGED config
    /\ UNCHANGED <<spots, last_published, sp, d, status, clock, published,
                   tick, hist, outs>>

Next ==
    \/ ReadAndUpdate
    \/ Gate
    \/ Publish
    \/ Sleep
    \/ Interrupt
    \/ Shutdown

Spec == Init /\ [][Next]_vars

(***************************************************************************)
(* The program started from a source whose THRESHOLD_CM or DEBOUNCE_N was  *)
(* edited: nothing between the constants and the loop looks at them.       *)
(***************************************************************************)
InitConfig ==
    \E acts \in [SPOTS -> LoopActivities], bases \in [SPOTS -> FreeBase] :
       \E cfg \in Configs : StartedWith(acts, bases, cfg)

SpecConfig == InitConfig /\ [][Next]_vars

(***************************************************************************)
(* The publisher loop left to run: no KeyboardInterrupt comes, for more    *)
(* sweeps than Spec follows.                                               *)
(***************************************************************************)
\* the times this run reads for spot s: the time of the last read, or the
\* instant of the spot's next_switch
RunTimes(s) ==
    {clock} \cup {t \in {spots[s].next_switch} : t > clock /\ t <= MaxTime}

\* the noise this run draws: the top of its range
RunNoise == {n \in Noise : n >= 0}

\* lines 113-114 in this run
ReadAndUpdateRun == ReadAndUpdateWith(RunTimes(sp), RunNoise)

\* line 130: time.sleep(READ_INTERVAL_S), then the next sweep
SleepRun ==
    /\ pc = "sleep"
    /\ tick < MaxRunTicks
    /\ clock' = clock + READ_INTERVAL_MS
    /\ tick' = tick + 1
    /\ sp' = 1
    /\ pc' = "read"
    /\ UNCHANGED config
    /\ UNCHANGED <<spots, last_published, d, status, client, published,
                   hist, outs>>

NextRun ==
    \/ ReadAndUpdateRun
    \/ Gate
    \/ Publish
    \/ SleepRun

SpecRun == Init /\ [][NextRun]_vars

(***************************************************************************)
(* The publisher loop with the outcome of each publish: client.publish     *)
(* returns a result (delivered or not) that line 128 discards.             *)
(***************************************************************************)
\* mutant: a publish that failed is tried again in the next sweep
PublishSink_retry ==
    /\ pc = "publish"
    /\ \E ok \in BOOLEAN :
          /\ published' = Append(published,
                                 [spot_id |-> sp, status |-> status,
                                  tick |-> tick, ok |-> ok])
          /\ last_published' =
                IF ok THEN last_published
                      ELSE [last_published EXCEPT ![sp] = "None"]
    /\ NextSpot
    /\ UNCHANGED config
    /\ UNCHANGED <<spots, d, status, clock, client, tick, hist, outs>>

\* line 128: client.publish(...), delivered (ok) or not, the result unused
PublishSink ==
    /\ pc = "publish"
    /\ \E ok \in BOOLEAN :
          published' = Append(published,
                              [spot_id |-> sp, status |-> status,
                               tick |-> tick, ok |-> ok])
    /\ NextSpot
    /\ UNCHANGED config
    /\ UNCHANGED <<spots, last_published, d, status, clock, client, tick,
                   hist, outs>>

NextSink ==
    \/ ReadAndUpdateRun
    \/ Gate
    \/ PublishSink
    \/ Sleep

SpecSink == Init /\ [][NextSink]_vars

(***************************************************************************)
(* The debounce filter on its own: update_debounced_status called on one   *)
(* freshly created spot with any sequence of distances.                    *)
(***************************************************************************)
Feed(s, dist) ==
    /\ status = "None" \/ sp = s
    /\ Len(hist[s]) < MaxFeed
    /\ LET new == update_debounced_status(spots[s], dist)
       IN /\ spots' = [spots EXCEPT ![s] = new]
          /\ status' = new.stable_status
          /\ Record(s, dist, new)
    /\ sp' = s
    /\ d' = dist
    /\ UNCHANGED config
    /\ UNCHANGED <<last_published, pc, clock, client, published, tick>>

NextFilter == \E s \in SPOTS, dist \in TestDistances : Feed(s, dist)

SpecFilter == Init /\ [][NextFilter]_vars

(***************************************************************************)
(* The world model on its own: read_distance called on one freshly created *)
(* spot at any sequence of times.                                          *)
(***************************************************************************)
InitWorld ==
    \E acts \in [SPOTS -> Activities], bases \in [SPOTS -> FreeBase] :
        Started(acts, bases)

\* further times the harness reads: one READ_INTERVAL_S after the last read,
\* and the horizon itself, however long after next_switch that is
WorldTimes == {u \in {clock + READ_INTERVAL_MS, MaxTime} : u <= MaxTime}

WorldRead(s) ==
    /\ d = -1 \/ sp = s
    /\ \E t \in ReadTimes(s) \cup WorldTimes :
       \E dur \in Dwell(spots[s], ~spots[s].has_car) :
          LET world == update_world(spots[s], t, dur) IN
          \E base \in DistBase(world.has_car), noise \in Noise :
             /\ clock' = t
             /\ d' = distance(world.has_car, base, noise)
             /\ spots' = [spots EXCEPT ![s] = world]
    /\ sp' = s
    /\ UNCHANGED config
    /\ UNCHANGED <<last_published, status, pc, client, published, tick,
                   hist, outs>>

NextWorld == \E s \in SPOTS : WorldRead(s)

SpecWorld == InitWorld /\ [][NextWorld]_vars

(***************************************************************************)
(* Reading the recorded calls of update_debounced_status.                  *)
(***************************************************************************)
\* the status a detection argues for
StatusOf(det) == IF det THEN "OCCUPIED" ELSE "FREE"

\* stable_status of spot s before its i-th call
Prev(s, i) == IF i = 1 THEN "FREE" ELSE outs[s][i - 1]

\* the calls of spot s that changed its stable_status
Trans(s) == {i \in 1 .. Len(outs[s]) : outs[s][i] # Prev(s, i)}

\* the length of the run of equal detections that ends with the i-th of h
RECURSIVE RunAt(_, _)
RunAt(h, i) ==
    IF i = 1 \/ h[i - 1] # h[i] THEN 1 ELSE 1 + RunAt(h, i - 1)

\* the spot the harness drives, once it has made a call
Driven(s) == status # "None" /\ sp = s

(***************************************************************************)
(* C1: stable_status changes at a call if and only if that call's          *)
(* detection completes a run of exactly DEBOUNCE_N consecutive detections  *)
(* against the status held before the call; an interrupted run starts      *)
(* again, so the detections T,T,F,T,T,T,T from FREE give one change, at    *)
(* the 7th call.                                                           *)
(***************************************************************************)
C1_Example == <<TRUE, TRUE, FALSE, TRUE, TRUE, TRUE, TRUE>>

C1_ChangeIffFullRun ==
    \A s \in SPOTS :
       /\ \A i \in 1 .. Len(hist[s]) :
             (i \in Trans(s)) <=>
                /\ RunAt(hist[s], i) = DEBOUNCE_N
                /\ StatusOf(hist[s][i]) # Prev(s, i)
       /\ hist[s] = C1_Example => Trans(s) = {7}

C1_Witness ==
    \E s \in SPOTS :
       /\ hist[s] = C1_Example
       /\ outs[s][7] = "OCCUPIED"
       /\ spots[s].stable_status = "OCCUPIED"

(***************************************************************************)
(* C2: a call that changes stable_status had the counter of the new status *)
(* reach DEBOUNCE_N (the count before the call plus this detection), and   *)
(* returns with occ_count = 0 and free_count = 0.                          *)
(***************************************************************************)
C2_ChangeResetsCounters ==
    [][\A s \in SPOTS :
         spots'[s].stable_status # spots[s].stable_status =>
            /\ spots'[s].occ_count = 0
            /\ spots'[s].free_count = 0
            /\ IF spots'[s].stable_status = "OCCUPIED"
               THEN d' < THRESHOLD_CM /\ spots[s].occ_count + 1 >= DEBOUNCE_N
               ELSE d' >= THRESHOLD_CM /\ spots[s].free_count + 1 >= DEBOUNCE_N
      ]_vars

C2_Witness ==
    \E s \in SPOTS :
       /\ Len(outs[s]) \in Trans(s)
       /\ spots[s].stable_status = "FREE"
       /\ spots[s].occ_count = 0
       /\ spots[s].free_count = 0

(***************************************************************************)
(* C3: at creation and after every call, for any detections, at most one   *)
(* of occ_count and free_count is non-zero and neither is negative.        *)
(***************************************************************************)
C3_OneCounterLive ==
    \A s \in SPOTS :
       /\ spots[s].occ_count >= 0
       /\ spots[s].free_count >= 0
       /\ spots[s].occ_count = 0 \/ spots[s].free_count = 0

C3_Witness ==
    \E s \in SPOTS :
       /\ Len(hist[s]) >= 3
       /\ \E i \in 1 .. Len(hist[s]) : ~hist[s][i]
       /\ spots[s].occ_count = 2
       /\ spots[s].free_count = 0

(***************************************************************************)
(* C4: no bounce.  Right after a change of stable_status one opposite      *)
(* detection does not revert it; the next change comes no sooner than      *)
(* DEBOUNCE_N calls later, after DEBOUNCE_N consecutive detections of the  *)
(* other status.                                                           *)
(***************************************************************************)
C4_NoBounce ==
    \A s \in SPOTS : \A i \in Trans(s) :
       /\ i < Len(outs[s]) => outs[s][i + 1] = outs[s][i]
       /\ \A j \in Trans(s) :
             j > i =>
                /\ j >= i + DEBOUNCE_N
                /\ (\A k \in Trans(s) : ~(i < k /\ k < j)) =>
                      \A m \in (j - DEBOUNCE_N + 1) .. j :
                         StatusOf(hist[s][m]) = outs[s][j]

C4_Witness ==
    \E s \in SPOTS :
       /\ Trans(s) = {4, 8}
       /\ outs[s][4] = "OCCUPIED"
       /\ outs[s][8] = "FREE"

(***************************************************************************)
(* C9: the detection a call acts on is "occupied" exactly when the         *)
(* distance is strictly below THRESHOLD_CM; a distance equal to the        *)
(* threshold counts as FREE: free_count goes up by one (or the status      *)
(* switches to FREE) and occ_count is zeroed.                              *)
(***************************************************************************)
C9_StrictThreshold ==
    [][\A s \in SPOTS :
         s = sp' =>
            IF d' < THRESHOLD_CM
            THEN /\ spots'[s].free_count = 0
                 /\ \/ spots'[s].occ_count = spots[s].occ_count + 1
                    \/ /\ spots'[s].occ_count = 0
                       /\ spots[s].stable_status = "FREE"
                       /\ spots'[s].stable_status = "OCCUPIED"
            ELSE /\ spots'[s].occ_count = 0
                 /\ \/ spots'[s].free_count = spots[s].free_count + 1
                    \/ /\ spots'[s].free_count = 0
                       /\ spots[s].stable_status = "OCCUPIED"
                       /\ spots'[s].stable_status = "FREE"
      ]_vars

C9_Witness ==
    \E s \in SPOTS :
       /\ Driven(s)
       /\ d = THRESHOLD_CM
       /\ ~hist[s][Len(hist[s])]
       /\ spots[s].free_count = 2
       /\ spots[s].occ_count = 0

(***************************************************************************)
(* Reading the publisher loop.                                             *)
(***************************************************************************)
\* the events published for spot s, in order
EventsOf(s) == SelectSeq(published, LAMBDA e : e.spot_id = s)

\* sweep k has finished with spot s
Done(s, k) ==
    \/ tick > k
    \/ tick = k /\ (sp > s \/ (sp = s /\ pc = "sleep"))

\* an event of spot s is published, or about to be, in sweep k
PublishedIn(s, k) ==
    \/ \E i \in 1 .. Len(published) :
          published[i].spot_id = s /\ published[i].tick = k
    \/ pc = "publish" /\ sp = s /\ tick = k

(***************************************************************************)
(* C5: for every spot of every sweep the loop calls publish exactly when   *)
(* the status update_debounced_status returned differs from                *)
(* last_published[spot], and once the spot is processed                    *)
(* last_published[spot] is the spot's stable_status.                       *)
(***************************************************************************)
C5_PublishIffDiffers ==
    [][/\ (pc = "gate" /\ pc' # "finally") =>
             /\ status = spots[sp].stable_status
             /\ (pc' = "publish") <=> (status # last_published[sp])
             /\ last_published'[sp] = spots[sp].stable_status
       /\ (published' # published) <=> (pc = "publish" /\ pc' # "finally")
       /\ published' # published =>
             published' = Append(published,
                                 [spot_id |-> sp, status |-> status,
                                  tick |-> tick])
       /\ \A s \in SPOTS :
             (Done(s, tick) /\ Len(outs[s]) = tick)' =>
                (last_published[s] = spots[s].stable_status)'
      ]_vars

C5_Witness ==
    /\ tick = MaxTicks
    /\ pc = "sleep"
    /\ Len(EventsOf(1)) = 2
    /\ Len(EventsOf(NumSpots)) = 1
    /\ last_published[1] = "OCCUPIED"
    /\ last_published[NumSpots] = "FREE"

(***************************************************************************)
(* C6 as claimed: in every sweep, the first after startup included, no     *)
(* event is published for a spot whose stable_status the sweep left        *)
(* unchanged.                                                              *)
(***************************************************************************)
C6_Original ==
    \A s \in SPOTS : \A k \in 1 .. Len(outs[s]) :
       PublishedIn(s, k) => k \in Trans(s)

(***************************************************************************)
(* C6 amended: in every sweep but the first after startup, no event is     *)
(* published for a spot whose stable_status the sweep left unchanged (in   *)
(* the first sweep last_published is still None and the status is          *)
(* published though it did not change).                                    *)
(***************************************************************************)
C6_GatedAfterFirstSweep ==
    \A s \in SPOTS : \A k \in 1 .. Len(outs[s]) :
       (k > 1 /\ PublishedIn(s, k)) => k \in Trans(s)

C6_Witness ==
    \E s \in SPOTS :
       /\ Done(s, 2)
       /\ Trans(s) = {}
       /\ EventsOf(s) = <<[spot_id |-> s, status |-> "FREE", tick |-> 1]>>

(***************************************************************************)
(* C7 as claimed: a fresh spot whose first four detections are all         *)
(* "occupied" gets FREE, FREE, FREE, OCCUPIED from update_debounced_status *)
(* and exactly one event over those four sweeps, in the fourth.            *)
(***************************************************************************)
FourOccupied(s) ==
    /\ Len(hist[s]) >= DEBOUNCE_N
    /\ \A i \in 1 .. DEBOUNCE_N : hist[s][i]
    /\ Done(s, DEBOUNCE_N)

\* the events of spot s published in the sweeps up to k
EventsUpTo(s, k) == SelectSeq(EventsOf(s), LAMBDA e : e.tick <= k)

C7_Original ==
    \A s \in SPOTS :
       FourOccupied(s) =>
          /\ SubSeq(outs[s], 1, 4) = <<"FREE", "FREE", "FREE", "OCCUPIED">>
          /\ EventsUpTo(s, 4) =
                <<[spot_id |-> s, status |-> "OCCUPIED", tick |-> 4]>>

(***************************************************************************)
(* C7 amended: such a spot gets FREE, FREE, FREE, OCCUPIED and exactly two *)
(* events over those four sweeps: FREE in the first (nothing was published *)
(* yet) and OCCUPIED in the fourth.                                        *)
(***************************************************************************)
C7_TwoEvents ==
    \A s \in SPOTS :
       FourOccupied(s) =>
          /\ SubSeq(outs[s], 1, 4) = <<"FREE", "FREE", "FREE", "OCCUPIED">>
          /\ EventsUpTo(s, 4) =
                <<[spot_id |-> s, status |-> "FREE", tick |-> 1],
                  [spot_id |-> s, status |-> "OCCUPIED", tick |-> 4]>>

C7_Witness ==
    \E s \in SPOTS :
       /\ FourOccupied(s)
       /\ tick = 4
       /\ spots[s].stable_status = "OCCUPIED"
       /\ Len(EventsOf(s)) = 2

(***************************************************************************)
(* C8: idempotence.  After a change of stable_status to X, any number of   *)
(* further detections of X changes stable_status no more and publishes     *)
(* nothing more for the spot.                                              *)
(***************************************************************************)
C8_Idempotent ==
    \A s \in SPOTS : \A i \in Trans(s) : \A j \in (i + 1) .. Len(hist[s]) :
       (\A m \in (i + 1) .. j : StatusOf(hist[s][m]) = outs[s][i]) =>
          /\ outs[s][j] = outs[s][i]
          /\ ~PublishedIn(s, j)

C8_Witness ==
    \E s \in SPOTS :
       /\ Trans(s) = {4}
       /\ Len(hist[s]) = 5
       /\ hist[s][5]
       /\ Done(s, 5)
       /\ Len(EventsOf(s)) = 2

(***************************************************************************)
(* C10: has_car flips only in an _update_world call that reads a time at   *)
(* or after next_switch, and that call sets next_switch to the time read   *)
(* plus a freshly drawn dwell duration; a call that reads an earlier time  *)
(* leaves has_car and next_switch as they were.                            *)
(***************************************************************************)
C10_FlipOnlyWhenDue ==
    [][\A s \in SPOTS :
         /\ spots'[s].has_car # spots[s].has_car =>
               /\ s = sp'
               /\ clock' >= spots[s].next_switch
               /\ spots'[s].next_switch - clock' \in
                     Dwell(spots[s], spots'[s].has_car)
         /\ (s = sp' /\ clock' < spots[s].next_switch) =>
               /\ spots'[s].has_car = spots[s].has_car
               /\ spots'[s].next_switch = spots[s].next_switch
         /\ s # sp' => spots'[s] = spots[s]
      ]_vars

C10_Witness ==
    \E s \in SPOTS :
       /\ d # -1 /\ sp = s
       /\ spots[s].has_car
       /\ spots[s].activity = 16
       /\ spots[s].next_switch = clock + park_duration(spots[s], 180)

(***************************************************************************)
(* C11: every dwell duration a spot is given (next_switch minus the time   *)
(* it is assigned at, at creation and at each flip) lies in                *)
(* [45, 180] s / activity when the spot is occupied after the assignment   *)
(* and in [30, 150] s / activity when it is free; with activity 1.0 these  *)
(* are [45, 180] s and [30, 150] s.                                        *)
(***************************************************************************)
\* dur (ms) lies in [lo, hi] seconds divided by the activity a (tenths)
InRange(dur, a, lo, hi) ==
    /\ dur * a >= lo * 1000 * 10
    /\ dur * a <= hi * 1000 * 10
    /\ a = 10 => (dur >= lo * 1000 /\ dur <= hi * 1000)

DwellInRange(self, dur) ==
    IF self.has_car THEN InRange(dur, self.activity, 45, 180)
                    ELSE InRange(dur, self.activity, 30, 150)

C11_DwellRanges ==
    /\ \A s \in SPOTS : DwellInRange(spots[s], spots[s].next_switch - clock)
    /\ [][\A s \in SPOTS :
            spots'[s].next_switch # spots[s].next_switch =>
               DwellInRange(spots'[s], spots'[s].next_switch - clock')
         ]_vars

C11_Witness ==
    \E s \in SPOTS :
       /\ sp = s /\ d # -1
       /\ spots[s].activity = 10
       /\ spots[s].has_car
       /\ spots[s].next_switch - clock = 180 * 1000

(***************************************************************************)
(* C18: with the default THRESHOLD_CM, DIST_PARK, DIST_FREE and NOISE_CM   *)
(* every distance read_distance returns is non-negative and is below the   *)
(* threshold exactly when has_car holds: the noise never makes the         *)
(* detection contradict the ground truth.                                  *)
(***************************************************************************)
C18_DetectionIsTruth ==
    \A s \in SPOTS :
       (sp = s /\ d # -1) =>
          /\ d >= 0
          /\ (d < THRESHOLD_CM) <=> spots[s].has_car
          /\ spots[s].has_car => d <= DIST_PARK[2] + NOISE_CM
          /\ ~spots[s].has_car => d >= DIST_FREE[1] - NOISE_CM

C18_Witness ==
    \E s \in SPOTS :
       /\ sp = s
       /\ spots[s].has_car
       /\ d = DIST_PARK[2] + NOISE_CM

(***************************************************************************)
(* C19: an _update_world call flips has_car at most once however long      *)
(* after next_switch it reads the time (missed flips are not caught up),   *)
(* and after the call next_switch is strictly later than the time read.    *)
(***************************************************************************)
C19_OneFlipPerCall ==
    [][\A s \in SPOTS :
         s = sp' =>
            /\ spots'[s].next_switch > clock'
            /\ clock' >= spots[s].next_switch =>
                  /\ spots'[s].has_car = ~spots[s].has_car
                  /\ spots'[s].next_switch - clock' \in
                        Dwell(spots[s], spots'[s].has_car)
      ]_vars

\* with activity 1.0 a spot flips once within the horizon: this one was due
\* at 30 s, was read at MaxTime, more than a whole park dwell later, and is
\* occupied
C19_Witness ==
    \E s \in SPOTS :
       /\ sp = s /\ d # -1
       /\ spots[s].activity = 10
       /\ spots[s].has_car
       /\ clock = MaxTime
       /\ clock >= 30 * 1000 + park_duration(spots[s], 45)
       /\ spots[s].next_switch = clock + park_duration(spots[s], 45)


(***************************************************************************)
(* C12: the loop is left only at a tick boundary: the step that leaves it  *)
(* is taken from the sleep, with every spot of the sweep processed.        *)
(***************************************************************************)
C12_ExitAtTickBoundary ==
    [][pc' = "finally" =>
          /\ pc = "sleep"
          /\ \A s \in SPOTS : Len(outs[s]) = tick
      ]_vars

(***************************************************************************)
(* C13: the client is disconnected exactly once, by the step that follows  *)
(* the stop wherever the stop came, and nothing is published (and nothing  *)
(* else runs) once it is disconnected.                                     *)
(***************************************************************************)
C13_DisconnectOnce ==
    /\ client = "connected"
    /\ [][/\ client' # client =>
                /\ client = "connected"
                /\ client' = "disconnected"
                /\ pc = "finally"
          /\ pc = "finally" => client' = "disconnected"
          /\ pc' = "done" => client' = "disconnected"
          /\ client = "disconnected" =>
                /\ published' = published
                /\ client' = client
         ]_vars

C13_Witness ==
    /\ pc = "done"
    /\ client = "disconnected"
    /\ published # <<>>
    /\ Len(outs[1]) > Len(outs[NumSpots])

(***************************************************************************)
(* C16: a step of the sweep on spot sp leaves the Spot and the             *)
(* last_published entry of every other spot as they were, and no step      *)
(* changes the set of spots or a spot's activity.                          *)
(***************************************************************************)
C16_SpotsIndependent ==
    [][/\ DOMAIN spots' = DOMAIN spots
       /\ DOMAIN last_published' = DOMAIN last_published
       /\ \A s \in SPOTS :
             /\ spots'[s].activity = spots[s].activity
             /\ s # sp =>
                   /\ spots'[s] = spots[s]
                   /\ last_published'[s] = last_published[s]
      ]_vars

C16_Witness ==
    /\ sp = NumSpots
    /\ pc = "publish"
    /\ spots[1].stable_status = "FREE"
    /\ last_published[1] = "FREE"
    /\ spots[1].free_count > 0
    /\ status = "OCCUPIED"
    /\ last_published[NumSpots] = "OCCUPIED"


(***************************************************************************)
(* C17: for every spot the first event published is FREE and is published  *)
(* in the first sweep, every spot has an event once the first sweep is     *)
(* done with it, and two consecutive events of a spot never carry the same *)
(* status.                                                                 *)
(***************************************************************************)
C17_FirstFreeThenAlternate ==
    \A s \in SPOTS :
       LET ev == EventsOf(s) IN
       /\ last_published[s] = "None" => ev = <<>>
       /\ Done(s, 1) => ev # <<>>
       /\ ev # <<>> => (ev[1].status = "FREE" /\ ev[1].tick = 1)
       /\ \A i \in 1 .. Len(ev) - 1 : ev[i].status # ev[i + 1].status

C17_Witness ==
    \E s \in SPOTS :
       LET ev == EventsOf(s) IN
       /\ Len(ev) = 3
       /\ ev[1].status = "FREE"
       /\ ev[2].status = "OCCUPIED"
       /\ ev[3].status = "FREE"

(***************************************************************************)
(* C20: the detection of a spot's latest read is its has_car, and when the *)
(* last DEBOUNCE_N (or more) sweeps of a spot all saw the same has_car,    *)
(* the status returned in the last of them is the status for it; once that *)
(* sweep is done with the spot, stable_status and last_published are that  *)
(* status and the latest event published for the spot carries it.          *)
(***************************************************************************)
C20_BoundedResponse ==
    /\ \A s \in SPOTS : \A k \in 1 .. Len(hist[s]) :
          RunAt(hist[s], k) >= DEBOUNCE_N =>
             /\ outs[s][k] = StatusOf(hist[s][k])
             /\ (k = Len(hist[s]) /\ Done(s, k)) =>
                   /\ spots[s].stable_status = StatusOf(hist[s][k])
                   /\ last_published[s] = StatusOf(hist[s][k])
                   /\ EventsOf(s) # <<>>
                   /\ EventsOf(s)[Len(EventsOf(s))].status =
                         StatusOf(hist[s][k])
    /\ \A s \in SPOTS :
          hist[s] # <<>> => hist[s][Len(hist[s])] = spots[s].has_car

C20_Witness ==
    \E s \in SPOTS :
       /\ hist[s] = <<FALSE, TRUE, TRUE, TRUE, TRUE>>
       /\ Done(s, 5)
       /\ spots[s].has_car
       /\ last_published[s] = "OCCUPIED"
       /\ EventsOf(s)[Len(EventsOf(s))] =
             [spot_id |-> s, status |-> "OCCUPIED", tick |-> 5]


(***************************************************************************)
(* C14: whatever the outcomes of the publishes so far, a publish is        *)
(* attempted in every sweep that changes a spot's stable_status (and in    *)
(* the first), last_published is the status of the latest attempt whether  *)
(* it was delivered or not, and an event is never sent again: the next     *)
(* event of the spot comes with the next change and carries the other      *)
(* status.                                                                 *)
(***************************************************************************)
C14_NoRetryNoReplay ==
    \A s \in SPOTS :
       LET ev == EventsOf(s) IN
       /\ \A k \in Trans(s) \cup {1} : Done(s, k) => PublishedIn(s, k)
       /\ \A k \in 2 .. Len(outs[s]) : PublishedIn(s, k) => k \in Trans(s)
       /\ \A i \in 1 .. Len(ev) - 1 :
             /\ ev[i + 1].status # ev[i].status
             /\ ev[i + 1].tick > ev[i].tick
       /\ (ev # <<>> /\ ~(pc = "publish" /\ sp = s)) =>
             last_published[s] = ev[Len(ev)].status

C14_Witness ==
    \E s \in SPOTS :
       LET ev == EventsOf(s) IN
       /\ Len(ev) = 2
       /\ ~ev[1].ok
       /\ ~ev[2].ok
       /\ ev[2].status = "OCCUPIED"
       /\ ev[2].tick = DEBOUNCE_N
       /\ Done(s, DEBOUNCE_N + 1)
       /\ last_published[s] = "OCCUPIED"


(***************************************************************************)
(* C15: with a malformed configuration (a threshold or a debounce count    *)
(* that is zero or negative) the program stops at startup: no spot is ever *)
(* read and nothing is ever published.                                     *)
(***************************************************************************)
Malformed(cfg) == cfg.THRESHOLD_CM <= 0 \/ cfg.DEBOUNCE_N <= 0

C15_FailFast ==
    Malformed(config) =>
       /\ published = <<>>
       /\ \A s \in SPOTS : hist[s] = <<>>

=============================================================================
